---- MODULE Spec2Model ----
(***************************************************************************)
(* Component-lifecycle tracing of createTracingMixins                      *)
(* (packages/replay-internal/src/util/createPerformanceEntries.ts,         *)
(* lines 246-387): per-instance operation spans, the root span of the      *)
(* component tree and the debounced close timer of finishRootSpan.         *)
(*                                                                         *)
(* Time is discrete.  The clock `now` is read by timestampInSeconds() and  *)
(* by setTimeout; a timer that is due runs before the clock advances.      *)
(* Hook callbacks and timer callbacks run to completion (single-threaded   *)
(* event loop), so each is one action.                                     *)
(***************************************************************************)
EXTENDS Integers, Sequences, FiniteSets, TLC

\* ---------------------------------------------------------------- bounds
MaxSpans == 4      \* spans started in one behaviour
MaxEnds  == 2      \* end() calls observed on one span
MaxTime  == 2      \* last clock value at which a hook may fire
Timeout  == 2      \* options.timeout, the quiet period T (clock units)

\* ------------------------------------------------------- the component tree
Root == "root"
Inst == {"root", "foo", "bar"}

\* vm.$root : every instance reaches the root of its tree
RootOf(vm) == Root

\* formatComponentName(this, false)
formatComponentName(vm) ==
  CASE vm = "root" -> "Root"
    [] vm = "foo"  -> "Foo"
    [] vm = "bar"  -> "Bar"

\* Mappings from operation to corresponding lifecycle hook.
HOOKS ==
  [ activate |-> <<"activated", "deactivated">>,
    create   |-> <<"beforeCreate", "created">>,
    unmount  |-> <<"beforeUnmount", "unmounted">>,
    destroy  |-> <<"beforeDestroy", "destroyed">>,
    mount    |-> <<"beforeMount", "mounted">>,
    update   |-> <<"beforeUpdate", "updated">> ]

\* the operations whose hooks are installed in the mixins (the `hooks` list)
hooks == {"mount"}

\* options.trackComponents: an array of names, or a boolean (absent = false)
TrackComponentsValues ==
  { [isArray |-> FALSE, flag |-> FALSE, list |-> <<>>],
    [isArray |-> TRUE,  flag |-> TRUE,  list |-> <<"Foo">>] }

VARIABLES
  trackComponents,       \* options.trackComponents
  now,                   \* the clock
  activeSpan,            \* getActiveSpan() returns a span
  rootSpans,             \* the root spans started, in order of creation
  opSpans,               \* the operation spans started by (vm, operation), in order
  sentrySpansSet,        \* vm.$data._sentrySpans is an object
  sentrySpans,           \* vm.$data._sentrySpans[operation]: index in opSpans, 0 = undefined
  sentryRootSpan,        \* vm.$data._sentryRootSpan: index in rootSpans, 0 = undefined
  sentryRootSpanTimer,   \* vm.$data._sentryRootSpanTimer and the timer it names
  optionsHooks,          \* options.hooks given to createTracingMixins
  hooksResolved,         \* the local `hooks` of createTracingMixins
  mixins,                \* the hook names bound in the mixins object
  warned,                \* the operations logged as "Unknown hook"
  buildPc,               \* where createTracingMixins stands
  buildIndex,            \* position of the `for (const operation of hooks)` loop
  perfEntries,           \* the argument of createPerformanceEntries
  perfMapped,            \* entries.map(createPerformanceEntry)
  perfResult,            \* the array createPerformanceEntries returns
  perfPc                 \* where createPerformanceEntries stands

tracingVars == <<trackComponents, now, activeSpan, rootSpans, opSpans,
                 sentrySpansSet, sentrySpans, sentryRootSpan, sentryRootSpanTimer>>
buildVars == <<optionsHooks, hooksResolved, mixins, warned, buildPc, buildIndex>>
perfVars == <<perfEntries, perfMapped, perfResult, perfPc>>

vars == <<tracingVars, buildVars, perfVars>>

\* a timer handle: never set, pending with the captured timestamp, or run
NoTimer == [st |-> "none", ts |-> 0]

\* createTracingMixins is not being run
BuildIdle ==
  /\ optionsHooks = <<>>
  /\ hooksResolved = <<>>
  /\ mixins = {}
  /\ warned = {}
  /\ buildPc = "idle"
  /\ buildIndex = 0

\* createPerformanceEntries is not being run
PerfIdle ==
  /\ perfEntries = <<>>
  /\ perfMapped = <<>>
  /\ perfResult = <<>>
  /\ perfPc = "idle"

\* mixins.data(): the record attached to every instance
DataInit ==
  /\ now = 0
  /\ activeSpan = FALSE
  /\ rootSpans = <<>>
  /\ opSpans = [vm \in Inst |-> [operation \in hooks |-> <<>>]]
  /\ sentrySpansSet = [vm \in Inst |-> FALSE]
  /\ sentrySpans = [vm \in Inst |-> [operation \in hooks |-> 0]]
  /\ sentryRootSpan = [vm \in Inst |-> 0]
  /\ sentryRootSpanTimer = [vm \in Inst |-> NoTimer]

\* the component tree after its creation, for each trackComponents option
Init ==
  /\ BuildIdle
  /\ PerfIdle
  /\ trackComponents \in TrackComponentsValues
  /\ DataInit

\* ------------------------------------------------------------ the Tracer
\* startInactiveSpan({ name: 'Application Render', ... }): a new open span
NewRootSpan == [start |-> now, ends |-> 0, endTs |-> -1]

\* startInactiveSpan({ name: `Vue <${name}>`, ... }): a new open span
NewOpSpan == [ends |-> 0]

\* mutant: the call of end() is lost
SpanEndLost(span) == span

\* span.end(): one more call of end on the span
SpanEnd(span) == [span EXCEPT !.ends = @ + 1]

\* span.end(timestamp): the first call sets the end time
SpanEndAt(span, timestamp) ==
  [span EXCEPT !.ends = @ + 1,
               !.endTs = IF @ = -1 THEN timestamp ELSE @]

\* timestampInSeconds()
timestampInSeconds == now

RECURSIVE SumLen(_, _)
SumLen(f, S) ==
  IF S = {} THEN 0
  ELSE LET x == CHOOSE y \in S : TRUE
       IN Len(f[x[1]][x[2]]) + SumLen(f, S \ {x})

SpanCount(rs, os) == Len(rs) + SumLen(os, Inst \X hooks)

WithinBounds(rs, os) ==
  /\ SpanCount(rs, os) <= MaxSpans
  /\ \A k \in 1..Len(rs) : rs[k].ends <= MaxEnds
  /\ \A vm \in Inst, operation \in hooks :
       \A k \in 1..Len(os[vm][operation]) : os[vm][operation][k].ends <= MaxEnds

\* ------------------------------------------------------- the hook callback
\* Array.prototype.indexOf: index of the first occurrence, or -1
IndexOf(list, name) ==
  IF \E k \in 1..Len(list) : list[k] = name
  THEN (CHOOSE k \in 1..Len(list) :
          list[k] = name /\ \A j \in 1..(k - 1) : list[j] /= name) - 1
  ELSE -1

\* mutant: the membership test accepts a name that indexOf did not find
ShouldTrackAnyName(name) ==
  IF trackComponents.isArray
  THEN IndexOf(trackComponents.list, name) >= -1
  ELSE trackComponents.flag

\* Array.isArray(options.trackComponents) ? indexOf(name) > -1 : options.trackComponents
ShouldTrack(name) ==
  IF trackComponents.isArray
  THEN IndexOf(trackComponents.list, name) > -1
  ELSE trackComponents.flag

\* const isRoot = this.$root === this
IsRoot(vm) == RootOf(vm) = vm

\* mutant: the spans map is read and written on the root's record
DataOfRoot(vm) == RootOf(vm)

\* this.$data: the record that holds the _sentrySpans of the instance
DataOf(vm) == vm

\* mutant: the stored root span is not reused (`||` dropped)
RootSpanStartedAlways(vm) == IsRoot(vm) /\ activeSpan

\* mutant: the root span is started for the first busy cycle only
RootSpanStartedOnce(vm) ==
  IsRoot(vm) /\ activeSpan /\ sentryRootSpan[vm] = 0 /\ rootSpans = <<>>

\* the isRoot block starts a root span: none stored, external span active
RootSpanStarted(vm) ==
  IsRoot(vm) /\ activeSpan /\ sentryRootSpan[vm] = 0

\* mutant: the `if (activeSpan)` test of the before-hook is missing
StartingContextUnchecked(vm, rootRefs) == TRUE

\* (this.$root && this.$root.$data._sentryRootSpan) || getActiveSpan()
StartingContext(vm, rootRefs) ==
  rootRefs[RootOf(vm)] /= 0 \/ activeSpan

\* mutant: the stale span is overwritten without being ended
EndOldSpanSkipped(list, oldSpan) == list

\* const oldSpan = this.$data._sentrySpans[operation]; if (oldSpan) oldSpan.end()
EndOldSpan(list, oldSpan) ==
  IF oldSpan /= 0 THEN [list EXCEPT ![oldSpan] = SpanEnd(@)] ELSE list

\* finishRootSpan: clearTimeout of the handle stored on vm, then setTimeout
finishRootSpan(vm, timestamp, timeout) ==
  [sentryRootSpanTimer EXCEPT ![vm] = [st |-> "pending", ts |-> timestamp]]

\* mixins[internalHook] called by the framework on instance vm
Hook(vm, operation, internalHook) ==
  LET startRoot == RootSpanStarted(vm)
      rs1   == IF startRoot THEN Append(rootSpans, NewRootSpan) ELSE rootSpans
      root1 == IF startRoot
               THEN [sentryRootSpan EXCEPT ![vm] = Len(rs1)]
               ELSE sentryRootSpan
      name  == formatComponentName(vm)
      data  == DataOf(vm)
      span  == sentrySpans[data][operation]
  IN
  /\ now <= MaxTime
  /\ rootSpans' = rs1
  /\ sentryRootSpan' = root1
  /\ UNCHANGED <<trackComponents, now, activeSpan, buildVars, perfVars>>
  /\ IF ~IsRoot(vm) /\ ~ShouldTrack(name)
     THEN UNCHANGED <<opSpans, sentrySpansSet, sentrySpans, sentryRootSpanTimer>>
     ELSE
       /\ sentrySpansSet' = [sentrySpansSet EXCEPT ![data] = TRUE]
       /\ IF internalHook = HOOKS[operation][1]
          THEN IF StartingContext(vm, root1)
               THEN LET l1 == EndOldSpan(opSpans[data][operation], span)
                        l2 == Append(l1, NewOpSpan)
                    IN /\ opSpans' = [opSpans EXCEPT ![data][operation] = l2]
                       /\ sentrySpans' =
                            [sentrySpans EXCEPT ![data][operation] = Len(l2)]
                       /\ UNCHANGED sentryRootSpanTimer
               ELSE UNCHANGED <<opSpans, sentrySpans, sentryRootSpanTimer>>
          ELSE IF span = 0
               THEN UNCHANGED <<opSpans, sentrySpans, sentryRootSpanTimer>>
               ELSE /\ opSpans' =
                         [opSpans EXCEPT ![data][operation][span] = SpanEnd(@)]
                    /\ sentryRootSpanTimer' =
                         finishRootSpan(vm, timestampInSeconds, Timeout)
                    /\ UNCHANGED sentrySpans
  /\ WithinBounds(rootSpans', opSpans')

\* mixins[internalHooks[0]], e.g. beforeMount
BeforeHook(vm, operation) ==
  /\ operation \in hooks
  /\ Hook(vm, operation, HOOKS[operation][1])

\* mixins[internalHooks[1]], e.g. mounted
AfterHook(vm, operation) ==
  /\ operation \in hooks
  /\ Hook(vm, operation, HOOKS[operation][2])

\* mutant: the callback ends the root span and keeps the reference to it
TimerCallbackKeepsRootSpan(vm) ==
  LET t == sentryRootSpanTimer[vm]
      rootSpan == sentryRootSpan[RootOf(vm)]
  IN
  /\ t.st = "pending"
  /\ t.ts + Timeout <= now
  /\ sentryRootSpanTimer' =
       [sentryRootSpanTimer EXCEPT ![vm] = [st |-> "fired", ts |-> 0]]
  /\ IF rootSpan /= 0
     THEN rootSpans' = [rootSpans EXCEPT ![rootSpan] = SpanEndAt(@, t.ts)]
     ELSE UNCHANGED rootSpans
  /\ WithinBounds(rootSpans', opSpans)
  /\ UNCHANGED <<trackComponents, now, activeSpan, opSpans, sentrySpansSet,
                 sentrySpans, sentryRootSpan, buildVars, perfVars>>

\* the setTimeout callback of finishRootSpan, armed by instance vm
TimerCallback(vm) ==
  LET t == sentryRootSpanTimer[vm]
      rootSpan == sentryRootSpan[RootOf(vm)]
  IN
  /\ t.st = "pending"
  /\ t.ts + Timeout <= now
  /\ sentryRootSpanTimer' =
       [sentryRootSpanTimer EXCEPT ![vm] = [st |-> "fired", ts |-> 0]]
  /\ IF rootSpan /= 0
     THEN /\ rootSpans' = [rootSpans EXCEPT ![rootSpan] = SpanEndAt(@, t.ts)]
          /\ sentryRootSpan' = [sentryRootSpan EXCEPT ![RootOf(vm)] = 0]
     ELSE UNCHANGED <<rootSpans, sentryRootSpan>>
  /\ WithinBounds(rootSpans', opSpans)
  /\ UNCHANGED <<trackComponents, now, activeSpan, opSpans, sentrySpansSet,
                 sentrySpans, buildVars, perfVars>>

\* --------------------------------------------------------- the environment
\* the external trace starts or ends: getActiveSpan() changes its answer
SetActiveSpan ==
  /\ now <= MaxTime
  /\ activeSpan' = ~activeSpan
  /\ UNCHANGED <<trackComponents, now, rootSpans, opSpans, sentrySpansSet,
                 sentrySpans, sentryRootSpan, sentryRootSpanTimer,
                 buildVars, perfVars>>

TimerPending(vm) == sentryRootSpanTimer[vm].st = "pending"

\* the clock advances; a due timer runs first
Tick ==
  /\ \A vm \in Inst : TimerPending(vm) => sentryRootSpanTimer[vm].ts + Timeout > now
  /\ now < MaxTime \/ \E vm \in Inst : TimerPending(vm)
  /\ now' = now + 1
  /\ UNCHANGED <<trackComponents, activeSpan, rootSpans, opSpans, sentrySpansSet,
                 sentrySpans, sentryRootSpan, sentryRootSpanTimer,
                 buildVars, perfVars>>

Next ==
  \/ \E vm \in Inst, operation \in hooks : BeforeHook(vm, operation)
  \/ \E vm \in Inst, operation \in hooks : AfterHook(vm, operation)
  \/ \E vm \in Inst : TimerCallback(vm)
  \/ SetActiveSpan
  \/ Tick

Spec == Init /\ [][Next]_vars

TypeOK ==
  /\ now \in 0..(MaxTime + Timeout)
  /\ activeSpan \in BOOLEAN
  /\ SpanCount(rootSpans, opSpans) <= MaxSpans
  /\ \A vm \in Inst : sentryRootSpan[vm] \in 0..Len(rootSpans)

\* ------------------------------------------------------------ vocabulary
RootSpanRef == sentryRootSpan[Root]

\* the step ends the stored root span: the tree goes from Active to Idle
RootSpanCloses == RootSpanRef /= 0 /\ sentryRootSpan'[Root] = 0

\* the step runs the timer callback armed by vm
TimerFires(vm) ==
  sentryRootSpanTimer[vm].st = "pending" /\ sentryRootSpanTimer'[vm].st = "fired"

\* the step is an after-hook of (vm, operation) that ends the stored span
Completes(vm, operation) ==
  /\ sentrySpans[vm][operation] /= 0
  /\ Len(opSpans'[vm][operation]) = Len(opSpans[vm][operation])
  /\ opSpans'[vm][operation][sentrySpans[vm][operation]].ends
       = opSpans[vm][operation][sentrySpans[vm][operation]].ends + 1

\* the step starts an operation span of (vm, operation)
StartsOpSpan(vm, operation) ==
  Len(opSpans'[vm][operation]) > Len(opSpans[vm][operation])

\* the operation spans of (vm, operation) started and not ended
OpenSpans(vm, operation) ==
  { k \in 1..Len(opSpans[vm][operation]) : opSpans[vm][operation][k].ends = 0 }

\* the names of a trackComponents array
ListedNames == { trackComponents.list[k] : k \in 1..Len(trackComponents.list) }

\* the instance is the root or passes the trackComponents filter
Tracked(vm) == vm = Root \/ ShouldTrack(formatComponentName(vm))

\* ------------------------------------------------------------------- C1
\* C1 (root debounce): the root span is not ended before the quiet period
\* has passed since the last completion: when a step ends the root span, no
\* completion is younger than Timeout, i.e. no pending close timer is still
\* running.
C1_RootNotClosedBeforeQuiet ==
  [][ RootSpanCloses =>
        \A vm \in Inst :
          TimerPending(vm) => sentryRootSpanTimer[vm].ts + Timeout <= now ]_vars

\* ------------------------------------------------------------------- C2
\* C2 (invariant I1): no root span has end() called on it more than once,
\* and a close timer that fires while the root is Idle ends nothing and
\* leaves every span and every span reference as it was.
C2_RootEndedAtMostOnce ==
  [][ /\ \A k \in 1..Len(rootSpans') : rootSpans'[k].ends <= 1
      /\ \A vm \in Inst :
           (TimerFires(vm) /\ RootSpanRef = 0) =>
             UNCHANGED <<rootSpans, opSpans, sentrySpansSet, sentrySpans,
                         sentryRootSpan>> ]_vars

\* one root span was started and ended once, and both the root's and foo's
\* timers have run: one of them ran while the root was Idle
C2_Witness ==
  /\ Len(rootSpans) = 1
  /\ rootSpans[1].ends = 1
  /\ RootSpanRef = 0
  /\ sentryRootSpanTimer["root"].st = "fired"
  /\ sentryRootSpanTimer["foo"].st = "fired"

\* ------------------------------------------------------------------- C3
\* C3 (P1 pairing): no operation span ever has end() called on it more than
\* once, whatever before- and after-hooks follow the pair that opened and
\* ended it.
C3_OpSpanEndedAtMostOnce ==
  \A vm \in Inst, operation \in hooks :
    \A k \in 1..Len(opSpans[vm][operation]) : opSpans[vm][operation][k].ends <= 1

\* ------------------------------------------------------------------- C4
\* C4 (single-slot close timer): at most one root-close timer of the
\* component tree is pending.
C4_SinglePendingTimer ==
  Cardinality({ vm \in Inst : TimerPending(vm) }) <= 1

\* ------------------------------------------------------------------- C5
\* C5 (P3 missing before): an after-hook of (vm, operation) fired when no
\* before-hook ever started a span for (vm, operation) starts no span, ends
\* no span, arms no timer and leaves the root span and every operationSpans
\* entry unchanged.
C5_AfterWithoutBeforeIsNoOp ==
  [][ \A vm \in Inst, operation \in hooks :
        (opSpans[vm][operation] = <<>> /\ AfterHook(vm, operation)) =>
          UNCHANGED <<rootSpans, opSpans, sentrySpans, sentryRootSpan,
                      sentryRootSpanTimer>> ]_vars

\* ------------------------------------------------------------------- C6
\* C6 (P5 filter): with a trackComponents array, a step starts or ends an
\* operation span of a non-root instance, or arms its close timer, only if
\* the instance's display name is a member of the array; a before-hook on
\* the root with a trace context starts an operation span whatever
\* trackComponents is.
C6_Filter ==
  [][ /\ \A vm \in Inst \ {Root} :
           ( /\ trackComponents.isArray
             /\ \/ opSpans'[vm] /= opSpans[vm]
                \/ sentrySpans'[vm] /= sentrySpans[vm]
                \/ sentryRootSpanTimer'[vm] /= sentryRootSpanTimer[vm] )
           => formatComponentName(vm) \in ListedNames
      /\ \A operation \in hooks :
           (BeforeHook(Root, operation) /\ (activeSpan \/ RootSpanRef /= 0))
           => /\ StartsOpSpan(Root, operation)
              /\ sentrySpans'[Root][operation] = Len(opSpans'[Root][operation]) ]_vars

\* the array names Foo only: foo and the root have completed an operation,
\* bar has no span, no entry and no timer
C6_Witness ==
  /\ trackComponents.isArray
  /\ ListedNames = {"Foo"}
  /\ \E operation \in hooks :
       /\ opSpans["foo"][operation] /= <<>>
       /\ opSpans["root"][operation] /= <<>>
       /\ opSpans["bar"][operation] = <<>>
  /\ sentryRootSpanTimer["foo"].st = "pending"
  /\ sentryRootSpanTimer["bar"].st = "none"

\* ------------------------------------------------------------------- C7
\* C7 (invariant I2, P6 defensive close): after every step the only
\* operation span of (vm, operation) that can be open is the one stored in
\* _sentrySpans[operation], so at most one is open; and after an after-hook
\* that ends the stored span none is open, however many before-hooks
\* preceded it.
C7_AtMostOneOpen ==
  [][ \A vm \in Inst, operation \in hooks :
        /\ OpenSpans(vm, operation)' \subseteq {sentrySpans'[vm][operation]}
        /\ Completes(vm, operation) => OpenSpans(vm, operation)' = {} ]_vars

\* two before-hooks in a row and then one after-hook: two spans started,
\* each ended once, none open
C7_Witness ==
  \E vm \in Inst, operation \in hooks :
    /\ Len(opSpans[vm][operation]) = 2
    /\ opSpans[vm][operation][1].ends = 1
    /\ opSpans[vm][operation][2].ends = 1
    /\ sentrySpans[vm][operation] = 2

\* ------------------------------------------------------------------- C8
\* some root span has been ended by the close timer
RootSpanEndedBefore == \E k \in 1..Len(rootSpans) : rootSpans[k].ends > 0

\* C8 as claimed (root re-open after a gap): once the close timer has ended
\* the root span, a before-hook on any tracked instance, root or not, fired
\* while an external trace is active leaves the root span present.
C8_ReopenByAnyTracked ==
  [][ \A vm \in Inst, operation \in hooks :
        ( /\ RootSpanEndedBefore /\ RootSpanRef = 0 /\ activeSpan
          /\ Tracked(vm)
          /\ BeforeHook(vm, operation) )
        => sentryRootSpan'[Root] /= 0 ]_vars

\* C8 as amended: once the close timer has ended the root span, a
\* before-hook on the root instance fired while an external trace is active
\* starts a new root span and leaves it stored and open.
C8_ReopenByRoot ==
  [][ \A operation \in hooks :
        ( /\ RootSpanEndedBefore /\ RootSpanRef = 0 /\ activeSpan
          /\ BeforeHook(Root, operation) )
        => /\ Len(rootSpans') = Len(rootSpans) + 1
           /\ sentryRootSpan'[Root] = Len(rootSpans')
           /\ rootSpans'[Len(rootSpans')].ends = 0 ]_vars

\* the first root span was ended by the timer, and a later before-hook on
\* the root started the second one, a quiet period or more after the end
\* timestamp of the first
C8_Witness ==
  /\ Len(rootSpans) = 2
  /\ rootSpans[1].ends = 1
  /\ rootSpans[2].ends = 0
  /\ rootSpans[2].start >= rootSpans[1].endTs + Timeout
  /\ RootSpanRef = 2
  /\ \E operation \in hooks :
       /\ sentrySpans[Root][operation] = 2
       /\ opSpans[Root][operation][2].ends = 0

\* ------------------------------------------------------------------- C9
\* C9 (no orphan spans): a step starts an operation span only if, before
\* it, the root span is present or an external span is active; it starts a
\* root span only if an external span is active; a before-hook with neither
\* starts no span and stores nothing.
C9_NoOrphanSpans ==
  [][ /\ \A vm \in Inst, operation \in hooks :
           StartsOpSpan(vm, operation) => (RootSpanRef /= 0 \/ activeSpan)
      /\ Len(rootSpans') > Len(rootSpans) => activeSpan
      /\ \A vm \in Inst, operation \in hooks :
           (BeforeHook(vm, operation) /\ ~activeSpan /\ RootSpanRef = 0)
           => UNCHANGED <<rootSpans, opSpans, sentrySpans>> ]_vars

\* the external trace is over, the root span is still present, and foo
\* holds an open operation span
C9_Witness ==
  /\ ~activeSpan
  /\ RootSpanRef /= 0
  /\ \E operation \in hooks :
       /\ sentrySpans["foo"][operation] /= 0
       /\ opSpans["foo"][operation][sentrySpans["foo"][operation]].ends = 0

\* ------------------------------------------------------------------ C10
\* C10 (close after quiet): the root span present at a completion is
\* ended with the timestamp captured at that completion when nothing
\* follows it: when a step ends the root span, its end timestamp is that of
\* every completion whose timer is still pending and that happened after
\* the root span was started.
C10_ClosedWithLastCompletion ==
  [][ \A vm \in Inst :
        ( /\ RootSpanCloses
          /\ TimerPending(vm)
          /\ rootSpans[RootSpanRef].start < sentryRootSpanTimer[vm].ts )
        => rootSpans'[RootSpanRef].endTs = sentryRootSpanTimer[vm].ts ]_vars

\* ------------------------------------------------------------------ C12
\* C12 (operationSpans holds only open spans): every span stored in an
\* operationSpans map has not been ended; after the after-hook the entry of
\* the operation is absent.
C12_StoredSpansAreOpen ==
  \A vm \in Inst, operation \in hooks :
    sentrySpans[vm][operation] /= 0 =>
      opSpans[vm][operation][sentrySpans[vm][operation]].ends = 0

\* ------------------------------------------------------------------ C13
\* the step is a hook callback on the root instance
RootHook == \E operation \in hooks :
              BeforeHook(Root, operation) \/ AfterHook(Root, operation)

\* the root spans started and not ended
OpenRootSpans == { k \in 1..Len(rootSpans) : rootSpans[k].ends = 0 }

\* C13 (ensure-started only moves Idle to Active): a step starts a root span
\* only if it is a hook on the root instance taken while no root span is
\* stored and an external span is active; while a root span is stored no
\* step replaces it by another one; and the only root span that can be
\* open is the stored one, so at most one is open.
C13_EnsureStarted ==
  [][ /\ Len(rootSpans') > Len(rootSpans) =>
           (RootHook /\ RootSpanRef = 0 /\ activeSpan)
      /\ RootSpanRef /= 0 => sentryRootSpan'[Root] \in {RootSpanRef, 0}
      /\ OpenRootSpans' \subseteq {sentryRootSpan'[Root]} ]_vars

\* the root span is stored and open after two before-hooks on the root
\* that no after-hook followed
C13_Witness ==
  /\ Len(rootSpans) = 1
  /\ RootSpanRef = 1
  /\ rootSpans[1].ends = 0
  /\ \E operation \in hooks :
       /\ Len(opSpans[Root][operation]) = 2
       /\ opSpans[Root][operation][2].ends = 0

\* ------------------------------------------------------------------ C14
\* C14 (root state is owned by the root record): no record of a non-root
\* instance holds a root span or a close-timer handle.
C14_RootStateOnRootOnly ==
  \A vm \in Inst \ {Root} :
    sentryRootSpan[vm] = 0 /\ sentryRootSpanTimer[vm].st = "none"

\* ------------------------------------------------------------------ C15
\* C15 (per-instance isolation): a hook on instance vm leaves the
\* operation spans, the operationSpans entries and the map of every other
\* instance as they were.
C15_Isolation ==
  [][ \A vm \in Inst, operation \in hooks :
        (BeforeHook(vm, operation) \/ AfterHook(vm, operation)) =>
          \A other \in Inst \ {vm} :
            /\ opSpans'[other] = opSpans[other]
            /\ sentrySpans'[other] = sentrySpans[other]
            /\ sentrySpansSet'[other] = sentrySpansSet[other] ]_vars

\* foo has started and ended a span of its own while the root's span of
\* the same operation stays open
C15_Witness ==
  \E operation \in hooks :
    /\ Len(opSpans["foo"][operation]) = 1
    /\ opSpans["foo"][operation][1].ends = 1
    /\ Len(opSpans[Root][operation]) = 1
    /\ opSpans[Root][operation][1].ends = 0
    /\ sentryRootSpanTimer[Root].st = "none"

\* ------------------------------------------------------------------ C17
\* C17 (no stale close): the end timestamp given to a root span is never
\* earlier than the time at which the span was started.
C17_EndNotBeforeStart ==
  \A k \in 1..Len(rootSpans) :
    rootSpans[k].ends > 0 => rootSpans[k].endTs >= rootSpans[k].start

\* ------------------------------------------------------------------ C18
\* C18 as claimed (root outlives its children): when a step ends the root
\* span, no operation span started while it was present is open.  Stated
\* for the first root span and the root instance, whose operation spans are
\* all started by hooks that find or start that root span.
C18_NoOpenSpanAtClose ==
  [][ (RootSpanCloses /\ Len(rootSpans) = 1) =>
        \A operation \in hooks : OpenSpans(Root, operation) = {} ]_vars

\* C18 as amended: when the timer armed by instance vm ends the root span,
\* vm has an operation span that has been ended (the completion that armed
\* the timer) and the quiet period has passed since that completion.
C18_CloserHasCompleted ==
  [][ \A vm \in Inst :
        (RootSpanCloses /\ TimerFires(vm)) =>
          /\ \E operation \in hooks :
               \E k \in 1..Len(opSpans[vm][operation]) :
                 opSpans[vm][operation][k].ends >= 1
          /\ sentryRootSpanTimer[vm].ts + Timeout <= now ]_vars

\* the root span was ended by the timer while the root's own operation
\* span, started under it, is still open
C18_Witness ==
  /\ Len(rootSpans) = 1
  /\ rootSpans[1].ends = 1
  /\ \E operation \in hooks :
       /\ Len(opSpans[Root][operation]) = 1
       /\ opSpans[Root][operation][1].ends = 0
       /\ opSpans["foo"][operation] /= <<>>
  /\ sentryRootSpanTimer["foo"].st = "fired"

\* ------------------------------------------------------------------ C19
\* the scheduling of the event loop: the clock advances and a pending
\* timer that is due runs; no hook is ever obliged to fire
FairSpec ==
  /\ Spec
  /\ WF_vars(Tick)
  /\ \A vm \in Inst : WF_vars(TimerCallback(vm))

\* C19 (every root span is eventually closed): each root span that is
\* started is eventually ended, also when the root hook that started it is
\* followed by no completed operation.
C19_EveryRootSpanClosed ==
  \A k \in 1..MaxSpans :
    (Len(rootSpans) >= k) ~> (Len(rootSpans) >= k /\ rootSpans[k].ends > 0)

\* =================================================== createTracingMixins
\* the construction of the hook table, lines 296-320 and 384-386

MaxHooksLen == 2     \* length of options.hooks

\* DEFAULT_HOOKS of ./constants: the operations that are always included
DEFAULT_HOOKS == <<"activate", "mount", "update">>

\* the property names an object literal inherits from Object.prototype
ObjectPrototypeNames ==
  {"constructor", "toString", "valueOf", "hasOwnProperty", "__proto__"}

\* the operation names a configuration may list
OperationNames == {"mount", "create", "bogus", "constructor"}

RECURSIVE SeqsUpTo(_, _)
SeqsUpTo(S, n) ==
  IF n = 0 THEN {<<>>}
  ELSE LET shorter == SeqsUpTo(S, n - 1)
       IN shorter \cup { Append(q, x) : q \in shorter, x \in S }

Range(list) == { list[k] : k \in 1..Len(list) }

\* HOOKS[operation] on the object literal HOOKS: an own property is the
\* array of two hook names, an inherited one is a function or an object,
\* any other name is undefined
HooksLookup(operation) ==
  IF operation \in DOMAIN HOOKS
  THEN [kind |-> "array", value |-> HOOKS[operation]]
  ELSE IF operation \in ObjectPrototypeNames
       THEN [kind |-> "inherited", value |-> <<>>]
       ELSE [kind |-> "undefined", value |-> <<>>]

\* .filter((value, index, self) => self.indexOf(value) === index)
RECURSIVE RemoveDuplicates(_, _)
RemoveDuplicates(self, n) ==
  IF n = 0 THEN <<>>
  ELSE IF IndexOf(self, self[n]) = n - 1
       THEN Append(RemoveDuplicates(self, n - 1), self[n])
       ELSE RemoveDuplicates(self, n - 1)

\* (options.hooks || []).concat(DEFAULT_HOOKS).filter(...), and the mixins
\* object with its data() member
BuildStart ==
  /\ buildPc = "start"
  /\ hooksResolved' =
       RemoveDuplicates(optionsHooks \o DEFAULT_HOOKS,
                        Len(optionsHooks \o DEFAULT_HOOKS))
  /\ mixins' = {"data"}
  /\ buildIndex' = 1
  /\ buildPc' = "loop"
  /\ UNCHANGED <<optionsHooks, warned, tracingVars, perfVars>>

\* a loop turn for an operation of HOOKS: both of its hooks are bound
BuildInstall ==
  /\ buildPc = "loop"
  /\ buildIndex <= Len(hooksResolved)
  /\ LET internalHooks == HooksLookup(hooksResolved[buildIndex])
     IN /\ internalHooks.kind = "array"
        /\ mixins' = mixins \cup Range(internalHooks.value)
  /\ buildIndex' = buildIndex + 1
  /\ UNCHANGED <<optionsHooks, hooksResolved, warned, buildPc, tracingVars,
                 perfVars>>

\* a loop turn for a name HOOKS does not have: logger.warn and continue
BuildSkip ==
  /\ buildPc = "loop"
  /\ buildIndex <= Len(hooksResolved)
  /\ HooksLookup(hooksResolved[buildIndex]).kind = "undefined"
  /\ warned' = warned \cup {hooksResolved[buildIndex]}
  /\ buildIndex' = buildIndex + 1
  /\ UNCHANGED <<optionsHooks, hooksResolved, mixins, buildPc, tracingVars,
                 perfVars>>

\* a loop turn for a name HOOKS inherits: the value is truthy, so the
\* `continue` is not taken, and `for (... of internalHooks)` throws a
\* TypeError because the value is not iterable
BuildThrow ==
  /\ buildPc = "loop"
  /\ buildIndex <= Len(hooksResolved)
  /\ HooksLookup(hooksResolved[buildIndex]).kind = "inherited"
  /\ buildPc' = "threw"
  /\ UNCHANGED <<optionsHooks, hooksResolved, mixins, warned, buildIndex,
                 tracingVars, perfVars>>

\* return mixins
BuildReturn ==
  /\ buildPc = "loop"
  /\ buildIndex > Len(hooksResolved)
  /\ buildPc' = "returned"
  /\ UNCHANGED <<optionsHooks, hooksResolved, mixins, warned, buildIndex,
                 tracingVars, perfVars>>

\* createTracingMixins is called with each options.hooks of the bound
MixinsInit ==
  /\ optionsHooks \in SeqsUpTo(OperationNames, MaxHooksLen)
  /\ hooksResolved = <<>>
  /\ mixins = {}
  /\ warned = {}
  /\ buildPc = "start"
  /\ buildIndex = 0
  /\ PerfIdle
  /\ trackComponents = [isArray |-> FALSE, flag |-> FALSE, list |-> <<>>]
  /\ DataInit

MixinsNext ==
  \/ BuildStart
  \/ BuildInstall
  \/ BuildSkip
  \/ BuildThrow
  \/ BuildReturn

MixinsSpec == MixinsInit /\ [][MixinsNext]_vars

\* the operations of the configuration and of the defaults that HOOKS has
KnownOperations ==
  (Range(optionsHooks) \cup Range(DEFAULT_HOOKS)) \cap DOMAIN HOOKS

\* ------------------------------------------------------------------ C11
\* C11 (hook table construction): for every configured operation list the
\* construction raises no error, and the table it returns binds the
\* before-hook and the after-hook of every configured or default operation
\* that has a hook pair, and nothing for any other name.
C11_HookTable ==
  /\ buildPc /= "threw"
  /\ buildPc = "returned" =>
       mixins \ {"data"} = UNION { Range(HOOKS[operation]) :
                                   operation \in KnownOperations }

\* ============================================== createPerformanceEntries
\* lines 18-27 and 68-178

MaxEntries == 2      \* length of the entries argument
TimeOrigin == 5000   \* browserPerformanceTimeOrigin, in milliseconds

\* the browser's performance entries: resource, paint and navigation
\* entries, and a mark entry, which ENTRY_TYPES does not list
PerfEntryValues ==
  { [entryType |-> "resource", name |-> n, startTime |-> 0, duration |-> d,
     initiatorType |-> i, type |-> "", domComplete |-> 0, responseEnd |-> 2000] :
      n \in {"a", "b"}, d \in {0, 1000}, i \in {"fetch", "xmlhttprequest", "img"} }
  \cup
  { [entryType |-> "paint", name |-> n, startTime |-> 0, duration |-> d,
     initiatorType |-> "", type |-> "", domComplete |-> 0, responseEnd |-> 0] :
      n \in {"a", "b"}, d \in {0, 1000} }
  \cup
  { [entryType |-> "navigation", name |-> n, startTime |-> 0, duration |-> d,
     initiatorType |-> "", type |-> "navigate", domComplete |-> 3000,
     responseEnd |-> 0] :
      n \in {"a", "b"}, d \in {0, 1000} }
  \cup
  { [entryType |-> "mark", name |-> n, startTime |-> 0, duration |-> 0,
     initiatorType |-> "", type |-> "", domComplete |-> 0, responseEnd |-> 0] :
      n \in {"a", "b"} }

\* null, and a ReplayPerformanceEntry (the size fields of data are copied
\* from the entry and are left out)
Null == [isNull |-> TRUE, type |-> <<>>, name |-> "", start |-> 0, end |-> 0,
         duration |-> 0]

\* (browserPerformanceTimeOrigin + time) / 1000
getAbsoluteTime(time) == (TimeOrigin + time) \div 1000

createPaintEntry(entry) ==
  LET start == getAbsoluteTime(entry.startTime)
  IN [isNull |-> FALSE, type |-> <<entry.entryType>>, name |-> entry.name,
      start |-> start, end |-> start + entry.duration, duration |-> 0]

\* mutant: navigation entries without duration are kept
createNavigationEntryKeepsAll(entry) ==
  [isNull |-> FALSE, type |-> <<entry.entryType, entry.type>>,
   name |-> entry.name, start |-> getAbsoluteTime(entry.startTime),
   end |-> getAbsoluteTime(entry.domComplete), duration |-> entry.duration]

createNavigationEntry(entry) ==
  IF entry.duration = 0
  THEN Null
  ELSE [isNull |-> FALSE, type |-> <<entry.entryType, entry.type>>,
        name |-> entry.name, start |-> getAbsoluteTime(entry.startTime),
        end |-> getAbsoluteTime(entry.domComplete), duration |-> entry.duration]

createResourceEntry(entry) ==
  IF entry.initiatorType \in {"fetch", "xmlhttprequest"}
  THEN Null
  ELSE [isNull |-> FALSE, type |-> <<entry.entryType, entry.initiatorType>>,
        name |-> entry.name, start |-> getAbsoluteTime(entry.startTime),
        end |-> getAbsoluteTime(entry.responseEnd), duration |-> 0]

\* the keys of ENTRY_TYPES
ENTRY_TYPES == {"resource", "paint", "navigation"}

createPerformanceEntry(entry) ==
  IF entry.entryType \notin ENTRY_TYPES
  THEN Null
  ELSE CASE entry.entryType = "resource"   -> createResourceEntry(entry)
         [] entry.entryType = "paint"      -> createPaintEntry(entry)
         [] entry.entryType = "navigation" -> createNavigationEntry(entry)

\* Boolean(value): null is falsy, an object is truthy
Boolean(value) == ~value.isNull

\* entries.map(createPerformanceEntry)
PerfMap ==
  /\ perfPc = "start"
  /\ perfMapped' = [k \in 1..Len(perfEntries) |->
                      createPerformanceEntry(perfEntries[k])]
  /\ perfPc' = "mapped"
  /\ UNCHANGED <<perfEntries, perfResult, tracingVars, buildVars>>

\* .filter(Boolean), and the return
PerfFilter ==
  /\ perfPc = "mapped"
  /\ perfResult' = SelectSeq(perfMapped, Boolean)
  /\ perfPc' = "returned"
  /\ UNCHANGED <<perfEntries, perfMapped, tracingVars, buildVars>>

\* createPerformanceEntries is called with each entries array of the bound
EntriesInit ==
  /\ perfEntries \in SeqsUpTo(PerfEntryValues, MaxEntries)
  /\ perfMapped = <<>>
  /\ perfResult = <<>>
  /\ perfPc = "start"
  /\ BuildIdle
  /\ trackComponents = [isArray |-> FALSE, flag |-> FALSE, list |-> <<>>]
  /\ DataInit

EntriesNext ==
  \/ PerfMap
  \/ PerfFilter

EntriesSpec == EntriesInit /\ [][EntriesNext]_vars

\* ------------------------------------------------------------------ C16
\* the entry is dropped, in the words of the claim
Dropped(entry) ==
  \/ entry.entryType \notin {"resource", "paint", "navigation"}
  \/ entry.entryType = "navigation" /\ entry.duration = 0
  \/ entry.entryType = "resource"
       /\ entry.initiatorType \in {"fetch", "xmlhttprequest"}

\* the positions of the input entries that are kept
KeptPositions == { k \in 1..Len(perfEntries) : ~Dropped(perfEntries[k]) }

\* the position of the j-th kept input entry
NthKept(j) ==
  CHOOSE k \in KeptPositions :
    Cardinality({ i \in KeptPositions : i <= k }) = j

\* C16: the array returned has one output per kept input entry, in input
\* order, where an entry is dropped iff its type is not resource, paint or
\* navigation, or it is a navigation entry of duration 0, or a resource
\* entry initiated by fetch or xmlhttprequest; the output holds no null and
\* is not longer than the input.
C16_KeptEntriesInOrder ==
  perfPc = "returned" =>
    /\ Len(perfResult) = Cardinality(KeptPositions)
    /\ Len(perfResult) <= Len(perfEntries)
    /\ \A j \in 1..Len(perfResult) :
         /\ ~perfResult[j].isNull
         /\ perfResult[j].name = perfEntries[NthKept(j)].name
         /\ perfResult[j].type[1] = perfEntries[NthKept(j)].entryType

\* of a navigation entry without duration followed by an image resource
\* only the resource is returned
C16_Witness ==
  /\ perfPc = "returned"
  /\ Len(perfEntries) = 2
  /\ perfEntries[1].entryType = "navigation"
  /\ perfEntries[1].duration = 0
  /\ perfEntries[2].entryType = "resource"
  /\ perfEntries[2].initiatorType = "img"
  /\ Len(perfResult) = 1
  /\ perfResult[1].type = <<"resource", "img">>
====
